---- MODULE Spec2Model ----
(***************************************************************************)
(* Chocofi keyboard case generator (src/case).                             *)
(*                                                                         *)
(* Lengths are integers in micrometres (the sources give millimetres with  *)
(* at most three decimals), so 1.6 mm is 1600.                             *)
(*                                                                         *)
(* A solid made from the board outline is described in the cross-section   *)
(* (r, z): r is the 2D offset from the board outline (makeOffset2D          *)
(* distance, negative inside the board) and z the height.  Such a solid is *)
(* a set of boxes [lo, hi] x [z0, z1]; cylinders and boxes placed at XY    *)
(* positions are kept as an ordered list of fuse / cut operations.         *)
(***************************************************************************)
EXTENDS Integers, Sequences, FiniteSets, TLC

VARIABLES
  disk_params,   \* the values params.py holds on disk
  disk_pcb_data, \* the tables pcb_data holds on disk
  changed,       \* the module files edited since sys.modules was filled
  sys_modules,   \* the interpreter's module cache
  sys_path,      \* directories on sys.path
  has_file,      \* __file__ is defined in the script's namespace
  f_var,         \* directory of the .py path held by a variable f, or "none"
  cwd,           \* os.getcwd()
  gui,           \* obj.ViewObject is usable (FALSE: headless)
  pc, idx,       \* position of build.py and its loop index
  dir,           \* _dir
  reloaded,      \* modules importlib.reload has re-executed in this run
  doc,           \* doc.Objects of the document build.py created
  recomputed,    \* doc.recompute() has run
  files,         \* the files Part.export has written, in order
  calls,         \* how often build.py has called each builder
  edges          \* the list build_pcb_wire filled last

VARIABLES
  bot_pc, bot_i,  \* position of bottom.py and its loop index
  bot,            \* the shapes bottom.py holds in its variables
  bot_files,      \* the files bottom.py has exported
  top_pc, top_i,  \* position of top.py and its loop index
  top,            \* the shapes top.py holds in its variables
  top_files,      \* the files top.py has exported
  held            \* the shapes direct builder calls have returned, in order

\* ------------------------------------------------------------------------
\* params.py
\* ------------------------------------------------------------------------
PCB_THICKNESS == 1600
WALL_THICKNESS == 2200
TOLERANCE == 500
FLOOR_THICKNESS == 1200
BOTTOM_WALL_HEIGHT == 5000
STANDOFF_HEIGHT == 4500
STANDOFF_OUTER_R == 3500
INSERT_HOLE_D == 3200
INSERT_HOLE_DEPTH == 3000
RIDGE_WIDTH == 1200
RIDGE_HEIGHT == 2000
TOP_PLATE_THICKNESS == 1500
TOP_LIP_HEIGHT == 2000
SWITCH_PLATE_CUTOUT == 13800
SCREW_CLEARANCE_D == 2400
USB_WIDTH == 12000
USB_HEIGHT == 4000

\* The values params.py holds on disk.
ActualParams ==
  [PCB_THICKNESS |-> PCB_THICKNESS, WALL_THICKNESS |-> WALL_THICKNESS,
   TOLERANCE |-> TOLERANCE, FLOOR_THICKNESS |-> FLOOR_THICKNESS,
   BOTTOM_WALL_HEIGHT |-> BOTTOM_WALL_HEIGHT, STANDOFF_HEIGHT |-> STANDOFF_HEIGHT,
   STANDOFF_OUTER_R |-> STANDOFF_OUTER_R, INSERT_HOLE_D |-> INSERT_HOLE_D,
   INSERT_HOLE_DEPTH |-> INSERT_HOLE_DEPTH, RIDGE_WIDTH |-> RIDGE_WIDTH,
   RIDGE_HEIGHT |-> RIDGE_HEIGHT, TOP_PLATE_THICKNESS |-> TOP_PLATE_THICKNESS,
   TOP_LIP_HEIGHT |-> TOP_LIP_HEIGHT, SWITCH_PLATE_CUTOUT |-> SWITCH_PLATE_CUTOUT,
   SCREW_CLEARANCE_D |-> SCREW_CLEARANCE_D, USB_WIDTH |-> USB_WIDTH,
   USB_HEIGHT |-> USB_HEIGHT]

\* An edited params.py: other positive values for the case dimensions.
EditedParams ==
  [ActualParams EXCEPT !.WALL_THICKNESS = 3000, !.TOLERANCE = 300,
                       !.FLOOR_THICKNESS = 2000, !.RIDGE_WIDTH = 1000,
                       !.RIDGE_HEIGHT = 1500, !.TOP_PLATE_THICKNESS = 2000,
                       !.TOP_LIP_HEIGHT = 1000]

ParamChoices == {ActualParams, EditedParams}

\* The revision of params.py a module cache filled by an earlier run holds
\* when the file was edited since.
PrevParams(p) ==
  [p EXCEPT !.WALL_THICKNESS = @ + 400, !.PCB_THICKNESS = @ + 400,
            !.BOTTOM_WALL_HEIGHT = @ + 1000, !.TOP_LIP_HEIGHT = @ + 500]

\* ------------------------------------------------------------------------
\* pcb_data: the placement tables the builders import.  KiCad coordinates,
\* rotations in degrees (multiples of 90 here, so that the footprint
\* transform is exact on integers).
\* ------------------------------------------------------------------------
SquareOutline ==
  << <<"line", <<0, 0>>, <<40000, 0>> >>,
     <<"line", <<40000, 0>>, <<40000, 30000>> >>,
     <<"line", <<40000, 30000>>, <<0, 30000>> >>,
     <<"line", <<0, 30000>>, <<0, 0>> >> >>

\* One rounded corner, one degenerate (zero length) line and one arc whose
\* three points are collinear.
RoundedOutline ==
  << <<"line", <<0, 0>>, <<50000, 0>> >>,
     <<"arc", <<50000, 0>>, <<52000, 2000>>, <<51414, 586>> >>,
     <<"line", <<52000, 2000>>, <<52000, 2000>> >>,
     <<"line", <<52000, 2000>>, <<52000, 30000>> >>,
     <<"arc", <<52000, 30000>>, <<50000, 30000>>, <<51000, 30000>> >>,
     <<"line", <<50000, 30000>>, <<0, 30000>> >>,
     <<"line", <<0, 30000>>, <<0, 0>> >> >>

TablesA ==
  [SEGMENTS |-> SquareOutline,
   SWITCH_POSITIONS |-> << <<10000, 10000, 0>>, <<28000, 12000, 90>> >>,
   SWITCH_NPTH_HOLES |-> << <<0, 5900, 3000>>, <<5000, 3800, 3000>> >>,
   SWITCH_CENTER_HOLE |-> <<0, 0, 3400>>,
   MOUNTING_HOLES |-> << <<20000, 15000>>, <<35000, 25000>> >>,
   MOUNTING_HOLE_DRILL |-> 2200,
   NICENANO_HEADERS |-> << <<36000, 8000, -90, << <<-7620, 0>>, <<7620, 0>> >> >> >>,
   NICENANO_PAD_DRILL |-> 1000,
   MCU_Y_CENTER |-> 8000]

TablesB ==
  [SEGMENTS |-> RoundedOutline,
   SWITCH_POSITIONS |-> << <<12000, 9000, 180>> >>,
   SWITCH_NPTH_HOLES |-> << <<0, 5900, 3000>> >>,
   SWITCH_CENTER_HOLE |-> <<0, 0, 3400>>,
   MOUNTING_HOLES |-> << <<25000, 20000>>, <<30000, 20000>>, <<6000, 24000>> >>,
   MOUNTING_HOLE_DRILL |-> 2200,
   NICENANO_HEADERS |-> << >>,
   NICENANO_PAD_DRILL |-> 1000,
   MCU_Y_CENTER |-> 12000]

TableChoices == {TablesA, TablesB}

\* The revision of pcb_data a stale module cache holds.
PrevTables(t) ==
  [t EXCEPT !.MOUNTING_HOLES = Tail(@),
            !.SEGMENTS = [i \in DOMAIN @ |->
                            IF @[i][1] = "arc" THEN <<"line", @[i][2], @[i][3]>> ELSE @[i]]]

\* ------------------------------------------------------------------------
\* Geometry kernel (FreeCAD / Part), as far as the scripts use it
\* ------------------------------------------------------------------------
Min(a, b) == IF a <= b THEN a ELSE b
Max(a, b) == IF a >= b THEN a ELSE b

\* r coordinate of the deepest point inside the board: lower than every
\* offset a script uses.
Core == 0 - 100000

Vector(x, y, z) == <<x, y, z>>

Abs(a) == IF a < 0 THEN -a ELSE a

\* p1.distanceToPoint(p2) > 0.001.  On integer micrometres the distance
\* exceeds 1 exactly when the coordinate differences add up to more than 1.
FarApart(p1, p2) ==
  Abs(p1[1] - p2[1]) + Abs(p1[2] - p2[2]) + Abs(p1[3] - p2[3]) > 1

makeLine(p1, p2) == [kind |-> "line", p1 |-> p1, p2 |-> p2]

RECURSIVE GCD(_, _)
GCD(a, b) == IF b = 0 THEN a ELSE GCD(b, a % b)

\* The direction of the 2D vector (a, b), reduced to lowest terms.
Direction(a, b) ==
  LET g == GCD(Abs(a), Abs(b))
  IN IF g = 0 THEN <<0, 0>> ELSE <<a \div g, b \div g>>

\* Part.Arc(p1, pm, p2) raises when the three points are on one line
\* (the vectors p1->pm and p1->p2 are parallel, or one of them is null).
ArcRaises(p1, pm, p2) ==
  LET u == Direction(pm[1] - p1[1], pm[2] - p1[2])
      v == Direction(p2[1] - p1[1], p2[2] - p1[2])
  IN u = <<0, 0>> \/ v = <<0, 0>> \/ u = v \/ u = <<-v[1], -v[2]>>

makeArc(p1, pm, p2) == [kind |-> "arc", p1 |-> p1, p2 |-> p2, pm |-> pm]

\* Part.Wire(edges); a wire carries the 2D offset it was made with.
Wire(edge_seq) == [edges |-> edge_seq, off |-> 0]

\* wire.makeOffset2D(d)
makeOffset2D(w, d) == [edges |-> w.edges, off |-> w.off + d]

\* Part.Face(wire): everything inside the offset outline.
Face(w) == [outline |-> w.edges, rings |-> {<<Core, w.off>>}]

\* The 1D interval a minus the interval b.
IntervalCut(a, b) ==
  {iv \in {<<a[1], Min(a[2], b[1])>>, <<Max(a[1], b[2]), a[2]>>} : iv[1] < iv[2]}

RECURSIVE RingsCut(_, _)
RingsCut(rs, cutters) ==
  IF cutters = {} THEN rs
  ELSE LET c == CHOOSE x \in cutters : TRUE
       IN RingsCut(UNION {IntervalCut(a, c) : a \in rs}, cutters \ {c})

\* face.cut(other)
FaceCut(f, g) == [outline |-> f.outline, rings |-> RingsCut(f.rings, g.rings)]

\* Mutant: the extrusion always goes up from the face, whatever the sign.
extrude_Up(f, dz) ==
  [outline |-> f.outline,
   prof |-> {[lo |-> r[1], hi |-> r[2], z0 |-> 0, z1 |-> Abs(dz)] : r \in f.rings},
   ops |-> << >>]

\* face.extrude(Vector(0, 0, dz))
extrude(f, dz) ==
  [outline |-> f.outline,
   prof |-> {[lo |-> r[1], hi |-> r[2], z0 |-> Min(0, dz), z1 |-> Max(0, dz)] :
               r \in f.rings},
   ops |-> << >>]

ShiftZ(prim, dz) == [prim EXCEPT !.z0 = @ + dz, !.z1 = @ + dz]

\* solid.translate(Vector(0, 0, dz)), in place
translate(s, dz) ==
  [s EXCEPT !.prof = {ShiftZ(b, dz) : b \in s.prof},
            !.ops = [i \in DOMAIN s.ops |-> [s.ops[i] EXCEPT !.prim = ShiftZ(@, dz)]]]

\* a.fuse(b) for two solids made from the outline
fuse(a, b) == [a EXCEPT !.prof = a.prof \cup b.prof, !.ops = a.ops \o b.ops]

\* The box a minus the box b in the (r, z) cross-section.
BoxCut(a, b) ==
  IF Max(a.lo, b.lo) >= Min(a.hi, b.hi) \/ Max(a.z0, b.z0) >= Min(a.z1, b.z1)
  THEN {a}
  ELSE {bx \in {[a EXCEPT !.hi = b.lo], [a EXCEPT !.lo = b.hi],
                [a EXCEPT !.lo = Max(a.lo, b.lo), !.hi = Min(a.hi, b.hi), !.z1 = b.z0],
                [a EXCEPT !.lo = Max(a.lo, b.lo), !.hi = Min(a.hi, b.hi), !.z0 = b.z1]} :
          bx.lo < bx.hi /\ bx.z0 < bx.z1}

RECURSIVE ProfCut(_, _)
ProfCut(boxes, cutters) ==
  IF cutters = {} THEN boxes
  ELSE LET c == CHOOSE x \in cutters : TRUE
       IN ProfCut(UNION {BoxCut(a, c) : a \in boxes}, cutters \ {c})

\* a.cut(b) for two solids made from the outline
cut(a, b) == [a EXCEPT !.prof = ProfCut(a.prof, b.prof)]

\* Part.makeCylinder(radius, height, pos): axis along Z from pos
makeCylinder(radius, height, pos) ==
  [kind |-> "cyl", x |-> pos[1], y |-> pos[2], radius |-> radius,
   z0 |-> pos[3], z1 |-> pos[3] + height]

\* Part.makeBox(length, width, height, corner).  rot is the rotation about
\* the Z axis through the origin applied to it, (tx, ty) the translation
\* applied after that.
makeBox(length, width, height, corner) ==
  [kind |-> "box", x |-> corner[1], y |-> corner[2], dx |-> length, dy |-> width,
   z0 |-> corner[3], z1 |-> corner[3] + height, rot |-> 0, tx |-> 0, ty |-> 0]

\* box.rotate(origin, Z axis, angle), in place
rotate(box, angle) == [box EXCEPT !.rot = @ + angle]

\* box.translate(Vector(x, y, 0)), in place
translateXY(box, x, y) == [box EXCEPT !.tx = @ + x, !.ty = @ + y]

\* solid.fuse(Part.Compound(prims)) and solid.cut(...) with placed primitives
FusePrims(s, prims) ==
  [s EXCEPT !.ops = @ \o [i \in DOMAIN prims |-> [op |-> "fuse", prim |-> prims[i]]]]

CutPrims(s, prims) ==
  [s EXCEPT !.ops = @ \o [i \in DOMAIN prims |-> [op |-> "cut", prim |-> prims[i]]]]

\* shape.removeSplitter() merges split faces; the volume is unchanged.
removeSplitter(s) == s

\* Two outline solids share volume.
SharesVolume(A, B) ==
  \E a \in A, b \in B :
    Max(a.lo, b.lo) < Min(a.hi, b.hi) /\ Max(a.z0, b.z0) < Min(a.z1, b.z1)

RECURSIVE MaxOf(_)
MaxOf(S) ==
  LET x == CHOOSE v \in S : TRUE
  IN IF S = {x} THEN x ELSE Max(x, MaxOf(S \ {x}))

\* wire.BoundBox.XMax, taken over the points that define the edges
XMax(w) ==
  MaxOf({w.edges[i].p1[1] : i \in DOMAIN w.edges}
        \cup {w.edges[i].p2[1] : i \in DOMAIN w.edges}) + w.off

\* ------------------------------------------------------------------------
\* helpers.py
\* ------------------------------------------------------------------------
\* Mutant: the list is created once and shared by all calls.
NewEdgeList_Shared == edges

\* edges = []  (a new list at every call of build_pcb_wire)
NewEdgeList == << >>

\* Mutant: an arc that cannot be made is dropped, not replaced by a line.
SegmentEdges_NoFallback(seg) ==
  LET p1 == Vector(seg[2][1], -seg[2][2], 0)
      p2 == Vector(seg[3][1], -seg[3][2], 0)
  IN IF seg[1] = "line"
     THEN IF FarApart(p1, p2) THEN <<makeLine(p1, p2)>> ELSE << >>
     ELSE IF seg[1] = "arc"
     THEN LET pm == Vector(seg[4][1], -seg[4][2], 0)
          IN IF ~ArcRaises(p1, pm, p2) THEN <<makeArc(p1, pm, p2)>> ELSE << >>
     ELSE << >>

\* The body of the loop over SEGMENTS: the edges one segment appends.
SegmentEdges(seg) ==
  LET p1 == Vector(seg[2][1], -seg[2][2], 0)
      p2 == Vector(seg[3][1], -seg[3][2], 0)
  IN IF seg[1] = "line"
     THEN IF FarApart(p1, p2) THEN <<makeLine(p1, p2)>> ELSE << >>
     ELSE IF seg[1] = "arc"
     THEN LET pm == Vector(seg[4][1], -seg[4][2], 0)
          IN IF ~ArcRaises(p1, pm, p2) THEN <<makeArc(p1, pm, p2)>>
             ELSE IF FarApart(p1, p2) THEN <<makeLine(p1, p2)>> ELSE << >>
     ELSE << >>

RECURSIVE AppendEdges(_, _, _)
AppendEdges(edge_seq, SEGS, i) ==
  IF i > Len(SEGS) THEN edge_seq
  ELSE AppendEdges(edge_seq \o SegmentEdges(SEGS[i]), SEGS, i + 1)

\* The list build_pcb_wire has filled when it returns.
WireEdges(SEGS) == AppendEdges(NewEdgeList, SEGS, 1)

build_pcb_wire(SEGS) == Wire(WireEdges(SEGS))

\* Mutant: the cylinder is exactly as high as the slab.
make_hole_Flush(x, y, z_base, height, diameter) ==
  makeCylinder(diameter \div 2, height, Vector(x, -y, z_base))

\* Mutant: the Y coordinate is not flipped.
make_hole_NoFlip(x, y, z_base, height, diameter) ==
  makeCylinder(diameter \div 2, height + 2000, Vector(x, y, z_base - 1000))

make_hole(x, y, z_base, height, diameter) ==
  makeCylinder(diameter \div 2, height + 2000, Vector(x, -y, z_base - 1000))

make_plate_cutout(x, y, rot, z_base, height, size) ==
  LET half == size \div 2
      box == makeBox(size, size, height + 2000, Vector(-half, -half, z_base - 1000))
      turned == IF rot # 0 THEN rotate(box, -rot) ELSE box
  IN translateXY(turned, x, -y)

\* math.cos / math.sin of an angle in degrees, for multiples of 90
Cos(deg) == IF deg % 360 = 0 THEN 1 ELSE IF deg % 360 = 180 THEN -1 ELSE 0
Sin(deg) == IF deg % 360 = 90 THEN 1 ELSE IF deg % 360 = 270 THEN -1 ELSE 0

transform_local_to_global(lx, ly, fp_x, fp_y, fp_rot_deg) ==
  <<fp_x + lx * Cos(fp_rot_deg) - ly * Sin(fp_rot_deg),
    fp_y + lx * Sin(fp_rot_deg) + ly * Cos(fp_rot_deg)>>

\* Concatenation of f[1], ..., f[n], each a sequence.
RECURSIVE Flatten(_)
Flatten(f) == IF f = << >> THEN << >> ELSE Head(f) \o Flatten(Tail(f))

\* ------------------------------------------------------------------------
\* pcb_model.py
\* ------------------------------------------------------------------------
\* Mutant: every switch also gets the square plate cutout.
SwitchHoles_WithCutout(p, t, sw) ==
  [k \in 1..Len(t.SWITCH_NPTH_HOLES) |->
     LET h == t.SWITCH_NPTH_HOLES[k]
         g == transform_local_to_global(h[1], h[2], sw[1], sw[2], sw[3])
     IN make_hole(g[1], g[2], -p.PCB_THICKNESS, p.PCB_THICKNESS, h[3])]
  \o <<make_plate_cutout(sw[1], sw[2], sw[3], -p.PCB_THICKNESS, p.PCB_THICKNESS,
                         p.SWITCH_PLATE_CUTOUT)>>

\* The holes one switch adds: its NPTH holes, then its centre hole.
SwitchHoles(p, t, sw) ==
  [k \in 1..Len(t.SWITCH_NPTH_HOLES) |->
     LET h == t.SWITCH_NPTH_HOLES[k]
         g == transform_local_to_global(h[1], h[2], sw[1], sw[2], sw[3])
     IN make_hole(g[1], g[2], -p.PCB_THICKNESS, p.PCB_THICKNESS, h[3])]
  \o LET c == t.SWITCH_CENTER_HOLE
         g == transform_local_to_global(c[1], c[2], sw[1], sw[2], sw[3])
     IN <<make_hole(g[1], g[2], -p.PCB_THICKNESS, p.PCB_THICKNESS, c[3])>>

HeaderHoles(p, t, fp) ==
  [k \in 1..Len(fp[4]) |->
     LET g == transform_local_to_global(fp[4][k][1], fp[4][k][2], fp[1], fp[2], fp[3])
     IN make_hole(g[1], g[2], -p.PCB_THICKNESS, p.PCB_THICKNESS, t.NICENANO_PAD_DRILL)]

PcbMountingHoles(p, t) ==
  [k \in 1..Len(t.MOUNTING_HOLES) |->
     make_hole(t.MOUNTING_HOLES[k][1], t.MOUNTING_HOLES[k][2],
               -p.PCB_THICKNESS, p.PCB_THICKNESS, t.MOUNTING_HOLE_DRILL)]

\* The list holes of build_pcb when the three loops are over.
PcbHoles(p, t) ==
  Flatten([i \in 1..Len(t.SWITCH_POSITIONS) |-> SwitchHoles(p, t, t.SWITCH_POSITIONS[i])])
  \o Flatten([i \in 1..Len(t.NICENANO_HEADERS) |-> HeaderHoles(p, t, t.NICENANO_HEADERS[i])])
  \o PcbMountingHoles(p, t)

\* p, t: the names pcb_model imported from params and pcb_data;
\* SEGS: the SEGMENTS helpers imported.
build_pcb(p, t, SEGS) ==
  LET wire == build_pcb_wire(SEGS)
      face == Face(wire)
      pcb == extrude(face, -p.PCB_THICKNESS)
      holes == PcbHoles(p, t)
  IN removeSplitter(IF holes # << >> THEN CutPrims(pcb, holes) ELSE pcb)

\* ------------------------------------------------------------------------
\* top_case_model.py
\* ------------------------------------------------------------------------
TopSwitchCutouts(p, t) ==
  [i \in 1..Len(t.SWITCH_POSITIONS) |->
     make_plate_cutout(t.SWITCH_POSITIONS[i][1], t.SWITCH_POSITIONS[i][2],
                       t.SWITCH_POSITIONS[i][3], 0, p.TOP_PLATE_THICKNESS,
                       p.SWITCH_PLATE_CUTOUT)]

TopScrewHoles(p, t) ==
  [i \in 1..Len(t.MOUNTING_HOLES) |->
     make_hole(t.MOUNTING_HOLES[i][1], t.MOUNTING_HOLES[i][2], 0,
               p.TOP_PLATE_THICKNESS, p.SCREW_CLEARANCE_D)]

\* Mutant: the tolerance is left out of the outer offset.
TopOuterOffset_NoTolerance(p) == p.WALL_THICKNESS

TopOuterOffset(p) == p.TOLERANCE + p.WALL_THICKNESS
TopInnerOffset(p) == p.TOLERANCE

build_top_case(p, t, SEGS) ==
  LET pcb_wire == build_pcb_wire(SEGS)
      outer_wire == makeOffset2D(pcb_wire, TopOuterOffset(p))
      inner_wire == makeOffset2D(pcb_wire, TopInnerOffset(p))
      outer_face == Face(outer_wire)
      inner_face == Face(inner_wire)
      plate == extrude(outer_face, p.TOP_PLATE_THICKNESS)
      lip_face == FaceCut(outer_face, inner_face)
      lip == extrude(lip_face, -p.TOP_LIP_HEIGHT)
      top_case == fuse(plate, lip)
  IN removeSplitter(CutPrims(CutPrims(top_case, TopSwitchCutouts(p, t)),
                             TopScrewHoles(p, t)))

\* ------------------------------------------------------------------------
\* bottom_case_model.py
\* ------------------------------------------------------------------------
z_walls_top(p) == -p.PCB_THICKNESS

\* Mutant: the wall height is added instead of subtracted.
z_floor_top_Up(p) == -p.PCB_THICKNESS + p.BOTTOM_WALL_HEIGHT

z_floor_top(p) == z_walls_top(p) - p.BOTTOM_WALL_HEIGHT
z_floor_bottom(p) == z_floor_top(p) - p.FLOOR_THICKNESS

BottomOuterOffset(p) == p.TOLERANCE + p.WALL_THICKNESS
BottomInnerOffset(p) == p.TOLERANCE
RidgeInnerOffset(p) == p.TOLERANCE + p.WALL_THICKNESS - p.RIDGE_WIDTH

\* Mutant: the posts are made as high as the board top.
BottomPosts_ToBoardTop(p, t) ==
  [i \in 1..Len(t.MOUNTING_HOLES) |->
     makeCylinder(p.STANDOFF_OUTER_R, p.STANDOFF_HEIGHT + p.PCB_THICKNESS,
                  Vector(t.MOUNTING_HOLES[i][1], -t.MOUNTING_HOLES[i][2], z_floor_top(p)))]

BottomPosts(p, t) ==
  [i \in 1..Len(t.MOUNTING_HOLES) |->
     makeCylinder(p.STANDOFF_OUTER_R, p.STANDOFF_HEIGHT,
                  Vector(t.MOUNTING_HOLES[i][1], -t.MOUNTING_HOLES[i][2], z_floor_top(p)))]

\* Mutant: the insert hole starts below the floor.
BottomInsertHoles_Through(p, t) ==
  [i \in 1..Len(t.MOUNTING_HOLES) |->
     makeCylinder(p.INSERT_HOLE_D \div 2,
                  p.FLOOR_THICKNESS + p.STANDOFF_HEIGHT + 2000,
                  Vector(t.MOUNTING_HOLES[i][1], -t.MOUNTING_HOLES[i][2],
                         z_floor_bottom(p) - 1000))]

BottomInsertHoles(p, t) ==
  [i \in 1..Len(t.MOUNTING_HOLES) |->
     LET insert_z == z_floor_top(p) + p.STANDOFF_HEIGHT - p.INSERT_HOLE_DEPTH
     IN makeCylinder(p.INSERT_HOLE_D \div 2, p.INSERT_HOLE_DEPTH + 10,
                     Vector(t.MOUNTING_HOLES[i][1], -t.MOUNTING_HOLES[i][2], insert_z))]

\* Mutant: the box stands on the underside of the floor.
usb_box_FromFloorBottom(p, t, outer_wire) ==
  makeBox(p.WALL_THICKNESS + p.TOLERANCE + 2000, p.USB_WIDTH, p.USB_HEIGHT,
          Vector(XMax(outer_wire) - p.WALL_THICKNESS - 1000,
                 -t.MCU_Y_CENTER - p.USB_WIDTH \div 2,
                 z_floor_bottom(p)))

usb_box(p, t, outer_wire) ==
  makeBox(p.WALL_THICKNESS + p.TOLERANCE + 2000, p.USB_WIDTH, p.USB_HEIGHT,
          Vector(XMax(outer_wire) - p.WALL_THICKNESS - 1000,
                 -t.MCU_Y_CENTER - p.USB_WIDTH \div 2,
                 z_floor_top(p) + p.BOTTOM_WALL_HEIGHT \div 2 - p.USB_HEIGHT \div 2))

BottomFloor(p, outer_face) ==
  translate(extrude(outer_face, p.FLOOR_THICKNESS), z_floor_bottom(p))

BottomWall(p, outer_face, inner_face) ==
  translate(extrude(FaceCut(outer_face, inner_face), p.BOTTOM_WALL_HEIGHT), z_floor_top(p))

BottomRidge(p, pcb_wire, outer_face) ==
  LET ridge_inner_wire == makeOffset2D(pcb_wire, RidgeInnerOffset(p))
      ridge_inner_face == Face(ridge_inner_wire)
      ridge_face == FaceCut(outer_face, ridge_inner_face)
  IN translate(extrude(ridge_face, p.RIDGE_HEIGHT), z_walls_top(p))

\* Mutant: the insert holes are cut before the posts are fused.
build_bottom_case_HolesFirst(p, t, SEGS) ==
  LET pcb_wire == build_pcb_wire(SEGS)
      inner_wire == makeOffset2D(pcb_wire, BottomInnerOffset(p))
      outer_wire == makeOffset2D(pcb_wire, BottomOuterOffset(p))
      inner_face == Face(inner_wire)
      outer_face == Face(outer_wire)
      floor_solid == BottomFloor(p, outer_face)
      wall_solid == BottomWall(p, outer_face, inner_face)
      case1 == fuse(floor_solid, wall_solid)
      case2 == fuse(case1, BottomRidge(p, pcb_wire, outer_face))
      posts == BottomPosts(p, t)
      holes == BottomInsertHoles(p, t)
      case3 == IF holes # << >> THEN CutPrims(case2, holes) ELSE case2
      case4 == IF posts # << >> THEN FusePrims(case3, posts) ELSE case3
  IN removeSplitter(CutPrims(case4, <<usb_box(p, t, outer_wire)>>))

build_bottom_case(p, t, SEGS) ==
  LET pcb_wire == build_pcb_wire(SEGS)
      inner_wire == makeOffset2D(pcb_wire, BottomInnerOffset(p))
      outer_wire == makeOffset2D(pcb_wire, BottomOuterOffset(p))
      inner_face == Face(inner_wire)
      outer_face == Face(outer_wire)
      floor_solid == BottomFloor(p, outer_face)
      wall_solid == BottomWall(p, outer_face, inner_face)
      case1 == fuse(floor_solid, wall_solid)
      case2 == fuse(case1, BottomRidge(p, pcb_wire, outer_face))
      posts == BottomPosts(p, t)
      holes == BottomInsertHoles(p, t)
      case3 == IF posts # << >> THEN FusePrims(case2, posts) ELSE case2
      case4 == IF holes # << >> THEN CutPrims(case3, holes) ELSE case3
  IN removeSplitter(CutPrims(case4, <<usb_box(p, t, outer_wire)>>))

\* ------------------------------------------------------------------------
\* build.py
\* ------------------------------------------------------------------------
scriptVars == <<bot_pc, bot_i, bot, bot_files, top_pc, top_i, top, top_files, held>>

buildVars ==
  <<disk_params, disk_pcb_data, changed, sys_modules, sys_path, has_file, f_var,
    cwd, gui, pc, idx, dir, reloaded, doc, recomputed, files, calls, edges>>

\* FreeCAD runs one macro or console command at a time.
BottomIdle == bot_pc \in {"wire", "done"}
TopIdle == top_pc \in {"wire", "done"}

BottomOutside == <<buildVars, top_pc, top_i, top, top_files, held>>
TopOutside == <<buildVars, bot_pc, bot_i, bot, bot_files, held>>

Modules ==
  {"params", "pcb_data", "helpers", "pcb_model", "top_case_model", "bottom_case_model"}

\* The modules a module imports names from (its from ... import lines).
Imports(m) ==
  CASE m = "helpers" -> {"pcb_data"}
    [] m \in {"pcb_model", "top_case_model", "bottom_case_model"} ->
         {"params", "pcb_data", "helpers"}
    [] OTHER -> {}

\* import params ... import bottom_case_model
ImportOrder ==
  <<"params", "pcb_data", "helpers", "pcb_model", "top_case_model", "bottom_case_model">>

\* Mutant: the data modules are reloaded after the modules that import them.
ReloadOrder_DataLast ==
  <<"helpers", "pcb_model", "top_case_model", "bottom_case_model", "params", "pcb_data">>

\* for mod in [params, pcb_data, helpers, pcb_model, top_case_model, bottom_case_model]
ReloadOrder ==
  <<"params", "pcb_data", "helpers", "pcb_model", "top_case_model", "bottom_case_model">>

NotLoaded == [loaded |-> FALSE, own |-> "none", from |-> [d \in Modules |-> "none"]]

\* A module is found when the script directory is on sys.path.
CanFind == "script" \in sys_path

\* Executing the source of m: its own names come from the file on disk, the
\* names it imports are copied from the modules in the cache as they are now.
Exec(mods, m) ==
  [mods EXCEPT ![m] = [loaded |-> TRUE, own |-> "fresh",
                       from |-> [d \in Modules |->
                                   IF d \in Imports(m) THEN mods[d].own ELSE "none"]]]

\* import m: a cached module is used as it is.
ImportModule(mods, m) == IF mods[m].loaded THEN mods ELSE Exec(mods, m)

\* The module cache an earlier run of build.py in this interpreter left.
CacheOfEarlierRun(ch) ==
  [m \in Modules |->
     [loaded |-> TRUE, own |-> IF m \in ch THEN "stale" ELSE "fresh",
      from |-> [d \in Modules |->
                  IF d \in Imports(m) THEN (IF d \in ch THEN "stale" ELSE "fresh")
                  ELSE "none"]]]

\* The values a builder defined in module m reads.
ParamsSeenBy(m) ==
  IF sys_modules[m].from["params"] = "fresh" THEN disk_params ELSE PrevParams(disk_params)

TablesSeenBy(m) ==
  IF sys_modules[m].from["pcb_data"] = "fresh" THEN disk_pcb_data
  ELSE PrevTables(disk_pcb_data)

\* build_pcb_wire reads SEGMENTS in the namespace of helpers.
SegmentsSeen == TablesSeenBy("helpers").SEGMENTS

\* Mutant: two entries name each other's builder.
parts_Swapped ==
  << <<"Chocofi_PCB", "build_pcb", <<10, 55, 15>>, 0>>,
     <<"Chocofi_TopCase", "build_bottom_case", <<30, 50, 85>>, 30>>,
     <<"Chocofi_BottomCase", "build_top_case", <<85, 50, 20>>, 30>> >>

\* parts = [(name, builder, color, transparency), ...]
parts ==
  << <<"Chocofi_PCB", "build_pcb", <<10, 55, 15>>, 0>>,
     <<"Chocofi_TopCase", "build_top_case", <<30, 50, 85>>, 30>>,
     <<"Chocofi_BottomCase", "build_bottom_case", <<85, 50, 20>>, 30>> >>

Builders == {"build_pcb", "build_top_case", "build_bottom_case"}

\* builder(): the function of that name, run in its module's namespace
CallBuilder(b) ==
  CASE b = "build_pcb" ->
         build_pcb(ParamsSeenBy("pcb_model"), TablesSeenBy("pcb_model"), SegmentsSeen)
    [] b = "build_top_case" ->
         build_top_case(ParamsSeenBy("top_case_model"), TablesSeenBy("top_case_model"),
                        SegmentsSeen)
    [] b = "build_bottom_case" ->
         build_bottom_case(ParamsSeenBy("bottom_case_model"),
                           TablesSeenBy("bottom_case_model"), SegmentsSeen)

\* doc.addObject("Part::Feature", name): the document keeps names unique.
addObject(objects, name) ==
  LET taken == \E i \in DOMAIN objects : objects[i].Name = name
  IN Append(objects, [Name |-> IF taken THEN <<name, Len(objects)>> ELSE name,
                      Shape |-> "null", ShapeColor |-> "default",
                      Transparency |-> 0])

\* Mutant: every object is written to the same file name.
ExportedFile_OneName(output_dir, obj) ==
  [dir |-> output_dir, stem |-> "ChocofiCase", ext |-> "step", objects |-> <<obj.Name>>]

\* os.path.join(output_dir, f"{obj.Name}.step") and Part.export([obj], step_path)
ExportedFile(output_dir, obj) ==
  [dir |-> output_dir, stem |-> obj.Name, ext |-> "step", objects |-> <<obj.Name>>]

BuildInit ==
  /\ disk_params \in ParamChoices
  /\ disk_pcb_data \in TableChoices
  /\ changed \in SUBSET Modules
  /\ sys_modules \in {[m \in Modules |-> NotLoaded], CacheOfEarlierRun(changed)}
  /\ (sys_modules = [m \in Modules |-> NotLoaded] => changed = {})
  /\ sys_path \in {{}, {"script"}}
  /\ has_file \in BOOLEAN
  /\ f_var \in {"none", "script", "other"}
  /\ cwd \in {"script", "other"}
  /\ gui \in BOOLEAN
  /\ pc = "start" /\ idx = 1 /\ dir = "none"
  /\ reloaded = {} /\ doc = << >> /\ recomputed = FALSE /\ files = << >>
  /\ calls = [b \in Builders |-> 0]
  /\ edges = << >>

\* lines 14-22: _dir and sys.path
SetupPath ==
  /\ pc = "start"
  /\ dir' = IF has_file THEN "script" ELSE IF f_var # "none" THEN f_var ELSE cwd
  /\ sys_path' = sys_path \cup {dir'}
  /\ pc' = "import" /\ idx' = 1
  /\ UNCHANGED <<disk_params, disk_pcb_data, changed, sys_modules, has_file, f_var, cwd,
                 gui, reloaded, doc, recomputed, files, calls, edges>>
  /\ UNCHANGED scriptVars

\* lines 25-30: one import statement
ImportStep ==
  /\ pc = "import"
  /\ LET m == ImportOrder[idx]
     IN IF sys_modules[m].loaded \/ CanFind
        THEN /\ sys_modules' = ImportModule(sys_modules, m)
             /\ IF idx < Len(ImportOrder)
                THEN pc' = pc /\ idx' = idx + 1
                ELSE pc' = "reload" /\ idx' = 1
        ELSE /\ pc' = "failed"
             /\ UNCHANGED <<sys_modules, idx>>
  /\ UNCHANGED <<disk_params, disk_pcb_data, changed, sys_path, has_file, f_var, cwd,
                 gui, dir, reloaded, doc, recomputed, files, calls, edges>>
  /\ UNCHANGED scriptVars

\* lines 32-33: one importlib.reload(mod)
ReloadStep ==
  /\ pc = "reload"
  /\ LET m == ReloadOrder[idx]
     IN IF CanFind
        THEN /\ sys_modules' = Exec(sys_modules, m)
             /\ reloaded' = reloaded \cup {m}
             /\ IF idx < Len(ReloadOrder)
                THEN pc' = pc /\ idx' = idx + 1
                ELSE pc' = "newdoc" /\ idx' = 1
        ELSE /\ pc' = "failed"
             /\ UNCHANGED <<sys_modules, reloaded, idx>>
  /\ UNCHANGED <<disk_params, disk_pcb_data, changed, sys_path, has_file, f_var, cwd,
                 gui, dir, doc, recomputed, files, calls, edges>>
  /\ UNCHANGED scriptVars

\* lines 35-50: the builders are imported, the document and the parts list made
NewDocument ==
  /\ pc = "newdoc"
  /\ doc' = << >> /\ recomputed' = FALSE
  /\ pc' = "parts" /\ idx' = 1
  /\ UNCHANGED <<disk_params, disk_pcb_data, changed, sys_modules, sys_path, has_file,
                 f_var, cwd, gui, dir, reloaded, files, calls, edges>>
  /\ UNCHANGED scriptVars

\* lines 52-60: one turn of the loop over parts
BuildPart ==
  /\ pc = "parts"
  /\ LET name == parts[idx][1]
         builder == parts[idx][2]
         added == addObject(doc, name)
         n == Len(added)
         shaped == [added EXCEPT ![n].Shape = CallBuilder(builder)]
     IN /\ doc' = IF gui
                  THEN [shaped EXCEPT ![n].ShapeColor = parts[idx][3],
                                      ![n].Transparency = parts[idx][4]]
                  ELSE shaped
        /\ calls' = [calls EXCEPT ![builder] = @ + 1]
  /\ edges' = WireEdges(SegmentsSeen)
  /\ recomputed' = FALSE
  /\ IF idx < Len(parts) THEN pc' = pc /\ idx' = idx + 1
     ELSE pc' = "recompute" /\ idx' = 1
  /\ UNCHANGED <<disk_params, disk_pcb_data, changed, sys_modules, sys_path, has_file,
                 f_var, cwd, gui, dir, reloaded, files>>
  /\ UNCHANGED scriptVars

\* line 62
Recompute ==
  /\ pc = "recompute"
  /\ recomputed' = TRUE
  /\ IF doc = << >> THEN pc' = "summary" ELSE pc' = "export"
  /\ idx' = 1
  /\ UNCHANGED <<disk_params, disk_pcb_data, changed, sys_modules, sys_path, has_file,
                 f_var, cwd, gui, dir, reloaded, doc, files, calls, edges>>
  /\ UNCHANGED scriptVars

\* lines 65-69: one turn of the loop over doc.Objects
ExportStep ==
  /\ pc = "export"
  /\ files' = Append(files, ExportedFile(dir, doc[idx]))
  /\ IF idx < Len(doc) THEN pc' = pc /\ idx' = idx + 1
     ELSE pc' = "summary" /\ idx' = 1
  /\ UNCHANGED <<disk_params, disk_pcb_data, changed, sys_modules, sys_path, has_file,
                 f_var, cwd, gui, dir, reloaded, doc, recomputed, calls, edges>>
  /\ UNCHANGED scriptVars

\* lines 72-74: doc.getObject("Chocofi_BottomCase").Shape.BoundBox
Summary ==
  /\ pc = "summary"
  /\ pc' = IF \E i \in DOMAIN doc : doc[i].Name = "Chocofi_BottomCase"
           THEN "done" ELSE "failed"
  /\ UNCHANGED <<disk_params, disk_pcb_data, changed, sys_modules, sys_path, has_file,
                 f_var, cwd, gui, idx, dir, reloaded, doc, recomputed, files, calls, edges>>
  /\ UNCHANGED scriptVars

\* ------------------------------------------------------------------------
\* bottom.py (standalone script)
\* ------------------------------------------------------------------------
bottom_WALL_THICKNESS == 2200
bottom_FLOOR_THICKNESS == 1200
bottom_WALL_HEIGHT == 5000
bottom_TOLERANCE == 500
bottom_RIDGE_WIDTH == 1200
bottom_RIDGE_HEIGHT == 2000
bottom_STANDOFF_HEIGHT == 3500
bottom_STANDOFF_OUTER_R == 3500
bottom_INSERT_HOLE_D == 3200
bottom_INSERT_HOLE_DEPTH == 3000

bottom_SEGMENTS ==
  <<
     <<"line", <<112910, 44495>>, <<112927, 49452>> >>,
     <<"arc", <<112927, 49452>>, <<112427, 49952>>, <<112781, 49805>> >>,
     <<"line", <<112427, 49952>>, <<95397, 49952>> >>,
     <<"arc", <<95397, 49952>>, <<94897, 50452>>, <<95044, 50098>> >>,
     <<"line", <<94897, 50452>>, <<94895, 61466>> >>,
     <<"arc", <<94895, 61466>>, <<94395, 61966>>, <<94749, 61819>> >>,
     <<"line", <<94395, 61966>>, <<77299, 61921>> >>,
     <<"arc", <<77299, 61921>>, <<76842, 62378>>, <<76976, 62055>> >>,
     <<"line", <<76842, 62378>>, <<76893, 76653>> >>,
     <<"line", <<76893, 76653>>, <<76893, 93722>> >>,
     <<"line", <<76893, 93722>>, <<76893, 110689>> >>,
     <<"line", <<76893, 110689>>, <<76893, 112061>> >>,
     <<"arc", <<76893, 112061>>, <<77553, 112721>>, <<77086, 112528>> >>,
     <<"line", <<77553, 112721>>, <<94012, 112721>> >>,
     <<"arc", <<94012, 112721>>, <<94673, 112061>>, <<94479, 112528>> >>,
     <<"line", <<94673, 112061>>, <<94673, 110689>> >>,
     <<"line", <<94673, 110689>>, <<94724, 101417>> >>,
     <<"arc", <<94724, 101417>>, <<95333, 100808>>, <<94902, 100986>> >>,
     <<"line", <<95333, 100808>>, <<112504, 100808>> >>,
     <<"arc", <<112504, 100808>>, <<113175, 101240>>, <<112903, 100925>> >>,
     <<"line", <<113175, 101240>>, <<124899, 121052>> >>,
     <<"arc", <<124899, 121052>>, <<125254, 121186>>, <<125064, 121151>> >>,
     <<"line", <<125254, 121186>>, <<143034, 121205>> >>,
     <<"line", <<143034, 121205>>, <<160357, 125929>> >>,
     <<"line", <<160357, 125929>>, <<174169, 133905>> >>,
     <<"arc", <<174169, 133905>>, <<175648, 133600>>, <<174945, 133929>> >>,
     <<"line", <<175648, 133600>>, <<188094, 111959>> >>,
     <<"line", <<188094, 111959>>, <<188000, 54250>> >>,
     <<"arc", <<188000, 54250>>, <<187500, 53750>>, <<187854, 53896>> >>,
     <<"line", <<187500, 53750>>, <<167210, 53760>> >>,
     <<"arc", <<167210, 53760>>, <<166730, 53400>>, <<166910, 53660>> >>,
     <<"arc", <<166730, 53400>>, <<166240, 53000>>, <<166557, 53113>> >>,
     <<"line", <<166240, 53000>>, <<149173, 53014>> >>,
     <<"arc", <<149173, 53014>>, <<148673, 52514>>, <<148820, 52868>> >>,
     <<"line", <<148673, 52514>>, <<148673, 51014>> >>,
     <<"arc", <<148673, 51014>>, <<148173, 50514>>, <<148527, 50660>> >>,
     <<"line", <<148173, 50514>>, <<131190, 50498>> >>,
     <<"arc", <<131190, 50498>>, <<130690, 49998>>, <<130836, 50352>> >>,
     <<"line", <<130690, 49998>>, <<130690, 44481>> >>,
     <<"arc", <<130690, 44481>>, <<130190, 43981>>, <<130544, 44128>> >>,
     <<"line", <<130190, 43981>>, <<113410, 43995>> >>,
     <<"arc", <<113410, 43995>>, <<112910, 44495>>, <<113056, 44141>> >>
  >>

bottom_MOUNTING_HOLES ==
  <<
     <<148971, 69850>>,
     <<185420, 106426>>,
     <<123952, 104140>>,
     <<167005, 110363>>,
     <<171323, 96901>>,
     <<95000, 83820>>,
     <<95000, 66802>>
  >>

\* ------------------------------------------------------------------------
\* top.py (standalone script)
\* ------------------------------------------------------------------------
top_PLATE_THICKNESS == 1600
top_GROOVE_DEPTH == 2000
top_GROOVE_WIDTH == 1200
top_GROOVE_TOLERANCE == 200
top_BORDER_WIDTH == 2200
top_TOLERANCE == 500
CHOC_CUTOUT == 13800
CHOC_TOLERANCE == 100
CHOC_HOLE == CHOC_CUTOUT + CHOC_TOLERANCE * 2

top_SEGMENTS ==
  <<
     <<"line", <<112910, 44495>>, <<112927, 49452>> >>,
     <<"arc", <<112927, 49452>>, <<112427, 49952>>, <<112781, 49805>> >>,
     <<"line", <<112427, 49952>>, <<95397, 49952>> >>,
     <<"arc", <<95397, 49952>>, <<94897, 50452>>, <<95044, 50098>> >>,
     <<"line", <<94897, 50452>>, <<94895, 61466>> >>,
     <<"arc", <<94895, 61466>>, <<94395, 61966>>, <<94749, 61819>> >>,
     <<"line", <<94395, 61966>>, <<77299, 61921>> >>,
     <<"arc", <<77299, 61921>>, <<76842, 62378>>, <<76976, 62055>> >>,
     <<"line", <<76842, 62378>>, <<76893, 76653>> >>,
     <<"line", <<76893, 76653>>, <<76893, 93722>> >>,
     <<"line", <<76893, 93722>>, <<76893, 110689>> >>,
     <<"line", <<76893, 110689>>, <<76893, 112061>> >>,
     <<"arc", <<76893, 112061>>, <<77553, 112721>>, <<77086, 112528>> >>,
     <<"line", <<77553, 112721>>, <<94012, 112721>> >>,
     <<"arc", <<94012, 112721>>, <<94673, 112061>>, <<94479, 112528>> >>,
     <<"line", <<94673, 112061>>, <<94673, 110689>> >>,
     <<"line", <<94673, 110689>>, <<94724, 101417>> >>,
     <<"arc", <<94724, 101417>>, <<95333, 100808>>, <<94902, 100986>> >>,
     <<"line", <<95333, 100808>>, <<112504, 100808>> >>,
     <<"arc", <<112504, 100808>>, <<113175, 101240>>, <<112903, 100925>> >>,
     <<"line", <<113175, 101240>>, <<124899, 121052>> >>,
     <<"arc", <<124899, 121052>>, <<125254, 121186>>, <<125064, 121151>> >>,
     <<"line", <<125254, 121186>>, <<143034, 121205>> >>,
     <<"line", <<143034, 121205>>, <<160357, 125929>> >>,
     <<"line", <<160357, 125929>>, <<174169, 133905>> >>,
     <<"arc", <<174169, 133905>>, <<175648, 133600>>, <<174945, 133929>> >>,
     <<"line", <<175648, 133600>>, <<188094, 111959>> >>,
     <<"line", <<188094, 111959>>, <<188000, 54250>> >>,
     <<"arc", <<188000, 54250>>, <<187500, 53750>>, <<187854, 53896>> >>,
     <<"line", <<187500, 53750>>, <<167210, 53760>> >>,
     <<"arc", <<167210, 53760>>, <<166730, 53400>>, <<166910, 53660>> >>,
     <<"arc", <<166730, 53400>>, <<166240, 53000>>, <<166557, 53113>> >>,
     <<"line", <<166240, 53000>>, <<149173, 53014>> >>,
     <<"arc", <<149173, 53014>>, <<148673, 52514>>, <<148820, 52868>> >>,
     <<"line", <<148673, 52514>>, <<148673, 51014>> >>,
     <<"arc", <<148673, 51014>>, <<148173, 50514>>, <<148527, 50660>> >>,
     <<"line", <<148173, 50514>>, <<131190, 50498>> >>,
     <<"arc", <<131190, 50498>>, <<130690, 49998>>, <<130836, 50352>> >>,
     <<"line", <<130690, 49998>>, <<130690, 44481>> >>,
     <<"arc", <<130690, 44481>>, <<130190, 43981>>, <<130544, 44128>> >>,
     <<"line", <<130190, 43981>>, <<113410, 43995>> >>,
     <<"arc", <<113410, 43995>>, <<112910, 44495>>, <<113056, 44141>> >>
  >>

top_SWITCHES ==
  <<
     <<121910, 52400, 0>>,
     <<103910, 58400, 0>>,
     <<139910, 59020, 0>>,
     <<157910, 61400, 0>>,
     <<121910, 69400, 0>>,
     <<85910, 70400, 0>>,
     <<103910, 75400, 0>>,
     <<139910, 76020, 0>>,
     <<157910, 78400, 0>>,
     <<121910, 86400, 0>>,
     <<85910, 87400, 0>>,
     <<103910, 92400, 0>>,
     <<139910, 93025, 0>>,
     <<157910, 95400, 0>>,
     <<85910, 104400, 0>>,
     <<134010, 112990, 0>>,
     <<154060, 115580, 15>>,
     <<174660, 118790, -60>>
  >>

TOWER_WALL == 1600
TOWER_TOL == 400
NV_PCB_H == 14000
NV_PCB_W == 36000
CAVITY_X == NV_PCB_H + TOWER_TOL * 2
CAVITY_Y == NV_PCB_W + TOWER_TOL * 2
HOLE_X == 20000
OUTER_X == HOLE_X + TOWER_WALL * 2
OUTER_Y == CAVITY_Y + TOWER_WALL * 2
TOWER_BASE_H == 1000
TOWER_HEIGHT == 2000
TOWER_TOTAL == TOWER_BASE_H + TOWER_HEIGHT
TOWER_CX == 177750
TOWER_FRONT_Y == 51050
TOWER_CY == TOWER_FRONT_Y + OUTER_Y \div 2
NANO_CLEARANCE == 0
NV_SCR_INSET_PIN == 5000
NV_SCR_INSET_CON == 4000
NV_SCR_INSET_SIDE == 1600
NV_SCREEN_DISP_W == NV_PCB_W - NV_SCR_INSET_PIN - NV_SCR_INSET_CON
NV_SCREEN_DISP_H == NV_PCB_H - NV_SCR_INSET_SIDE * 2
SCREEN_CY == TOWER_CY + (NV_SCR_INSET_PIN - NV_SCR_INSET_CON) \div 2
USBC_W == 11000
USBC_H == 3260
USBC_R == 800
tower_z_base == top_PLATE_THICKNESS + NANO_CLEARANCE
tower_top_z == tower_z_base + TOWER_TOTAL
TOWER_LEFT == TOWER_CX - OUTER_X \div 2
TOWER_RIGHT == 190700
TOWER_ACTUAL_W == TOWER_RIGHT - TOWER_LEFT
TOWER_ACTUAL_CX == (TOWER_LEFT + TOWER_RIGHT) \div 2
TOWER_CORNER_R == 3200
SCREEN_CX == TOWER_CX + 675
NV_PCB_RECESS_X == NV_PCB_H + TOWER_TOL * 2
NV_PCB_RECESS_Y == NV_PCB_W + TOWER_TOL * 2
NV_RECESS_DEPTH == 1000
REINFORCE_THICK == 600
REINFORCE_H == 3270
REINFORCE_W == 4500

\* Mutant: the groove is exactly as wide as the ridge.
GrooveInnerOffset_NoClearance == top_TOLERANCE + top_BORDER_WIDTH - top_GROOVE_WIDTH

\* top.py lines 175-177: the offset of groove_inner_wire
GrooveInnerOffset ==
  top_TOLERANCE + top_BORDER_WIDTH - top_GROOVE_WIDTH - top_GROOVE_TOLERANCE

\* top.py line 157 and bottom.py line 95: the offsets of the outer wires
TopScriptOuterOffset == top_TOLERANCE + top_BORDER_WIDTH
BottomScriptOuterOffset == bottom_TOLERANCE + bottom_WALL_THICKNESS

\* make_rect_face(cx, cy, w, h).extrude(Vector(0, 0, height)): a box on the
\* rectangle centred at (cx, -cy)
RectPrism(cx, cy, w, h, height) ==
  makeBox(w, h, height, Vector(cx - w \div 2, -(cy + h \div 2), 0))

\* The square cutout of one switch: corners rotated by rot about the switch
\* centre, Y flipped, extruded and moved down through plate and skirt.
ChocCutout(sx, sy, rot) ==
  LET half == CHOC_HOLE \div 2
      square == makeBox(CHOC_HOLE, CHOC_HOLE,
                        top_PLATE_THICKNESS + top_GROOVE_DEPTH + 2000,
                        Vector(-half, -half, 0))
  IN ShiftZ(translateXY(rotate(square, -rot), sx, -sy), -top_GROOVE_DEPTH - 1000)

\* The tower: a rounded rectangle extruded from the plate top, trimmed to the
\* plate outline (common with the extruded outer face).
TowerSolid ==
  [kind |-> "rounded_box",
   x |-> TOWER_ACTUAL_CX - TOWER_ACTUAL_W \div 2, y |-> -TOWER_CY - OUTER_Y \div 2,
   dx |-> TOWER_ACTUAL_W, dy |-> OUTER_Y, radius |-> TOWER_CORNER_R,
   z0 |-> tower_z_base, z1 |-> tower_z_base + TOWER_TOTAL,
   within |-> top_TOLERANCE + top_BORDER_WIDTH]

\* The USB-C notch: a U-shaped face in the front wall plane, extruded along Y.
UsbNotch ==
  LET usb_z_center == tower_z_base + TOWER_TOTAL \div 2 - 2470
      usb_top_z == usb_z_center + USBC_H \div 2
  IN [kind |-> "notch", x |-> TOWER_CX - USBC_W \div 2, dx |-> USBC_W,
      y |-> -TOWER_FRONT_Y - (TOWER_WALL + 2000) + 1000, dy |-> TOWER_WALL + 2000,
      radius |-> USBC_R, z0 |-> -5000, z1 |-> usb_top_z]

skirt_inner_fc_y == -(TOWER_FRONT_Y - top_BORDER_WIDTH + top_TOLERANCE)

Reinforcement(x0) ==
  makeBox(REINFORCE_W, REINFORCE_THICK, REINFORCE_H,
          Vector(x0, skirt_inner_fc_y - REINFORCE_THICK - 3300, -REINFORCE_H + 3260))

NoWire == [edges |-> << >>, off |-> 0]
NoFace == [outline |-> << >>, rings |-> {}]
NoSolid == [outline |-> << >>, prof |-> {}, ops |-> << >>]

ScriptsInit ==
  /\ bot_pc = "wire" /\ bot_i = 1 /\ bot_files = << >>
  /\ bot = [pcb_wire |-> NoWire, inner_wire |-> NoWire, outer_wire |-> NoWire,
            inner_face |-> NoFace, outer_face |-> NoFace, floor_solid |-> NoSolid,
            wall_solid |-> NoSolid, ridge_inner_wire |-> NoWire,
            ridge_solid |-> NoSolid, case |-> NoSolid]
  /\ top_pc = "wire" /\ top_i = 1 /\ top_files = << >>
  /\ top = [pcb_wire |-> NoWire, outer_wire |-> NoWire, outer_face |-> NoFace,
            groove_outer_wire |-> NoWire, groove_inner_wire |-> NoWire,
            groove_ring |-> NoFace, groove_solid |-> NoSolid,
            skirt_inner_wire |-> NoWire, skirt |-> NoSolid, plate |-> NoSolid]
  /\ held = << >>

\* bottom.py lines 69-86
BottomWire ==
  /\ bot_pc = "wire" /\ TopIdle
  /\ bot' = [bot EXCEPT !.pcb_wire = Wire(AppendEdges(<< >>, bottom_SEGMENTS, 1))]
  /\ bot_pc' = "faces"
  /\ UNCHANGED <<bot_i, bot_files>>
  /\ UNCHANGED BottomOutside

\* bottom.py lines 92-100
BottomFaces ==
  /\ bot_pc = "faces"
  /\ LET inner_wire == makeOffset2D(bot.pcb_wire, bottom_TOLERANCE)
         outer_wire == makeOffset2D(bot.pcb_wire, BottomScriptOuterOffset)
     IN bot' = [bot EXCEPT !.inner_wire = inner_wire, !.outer_wire = outer_wire,
                           !.inner_face = Face(inner_wire), !.outer_face = Face(outer_wire),
                           !.floor_solid = extrude(Face(outer_wire), bottom_FLOOR_THICKNESS)]
  /\ bot_pc' = "walls"
  /\ UNCHANGED <<bot_i, bot_files>>
  /\ UNCHANGED BottomOutside

\* bottom.py lines 102-106
BottomWalls ==
  /\ bot_pc = "walls"
  /\ LET wall_face == FaceCut(bot.outer_face, bot.inner_face)
         wall_solid == translate(extrude(wall_face, bottom_WALL_HEIGHT),
                                 bottom_FLOOR_THICKNESS)
     IN bot' = [bot EXCEPT !.wall_solid = wall_solid,
                           !.case = fuse(bot.floor_solid, wall_solid)]
  /\ bot_pc' = "ridge"
  /\ UNCHANGED <<bot_i, bot_files>>
  /\ UNCHANGED BottomOutside

\* bottom.py lines 108-121
BottomRidgeStep ==
  /\ bot_pc = "ridge"
  /\ LET ridge_z == bottom_FLOOR_THICKNESS + bottom_WALL_HEIGHT
         ridge_inner_wire ==
           makeOffset2D(bot.pcb_wire,
                        bottom_TOLERANCE + bottom_WALL_THICKNESS - bottom_RIDGE_WIDTH)
         ridge_face == FaceCut(bot.outer_face, Face(ridge_inner_wire))
         ridge_solid == translate(extrude(ridge_face, bottom_RIDGE_HEIGHT), ridge_z)
     IN bot' = [bot EXCEPT !.ridge_inner_wire = ridge_inner_wire,
                           !.ridge_solid = ridge_solid,
                           !.case = fuse(bot.case, ridge_solid)]
  /\ bot_pc' = "standoffs" /\ bot_i' = 1
  /\ UNCHANGED bot_files
  /\ UNCHANGED BottomOutside

\* bottom.py lines 141-151: one turn of the loop over MOUNTING_HOLES
BottomStandoff ==
  /\ bot_pc = "standoffs"
  /\ LET mx == bottom_MOUNTING_HOLES[bot_i][1]
         my == bottom_MOUNTING_HOLES[bot_i][2]
         pos == Vector(mx, -my, bottom_FLOOR_THICKNESS)
         post == makeCylinder(bottom_STANDOFF_OUTER_R, bottom_STANDOFF_HEIGHT, pos)
         insert_z == bottom_FLOOR_THICKNESS + bottom_STANDOFF_HEIGHT
                       - bottom_INSERT_HOLE_DEPTH
         hole == makeCylinder(bottom_INSERT_HOLE_D \div 2, bottom_INSERT_HOLE_DEPTH + 10,
                              Vector(mx, -my, insert_z))
     IN bot' = [bot EXCEPT !.case = CutPrims(FusePrims(bot.case, <<post>>), <<hole>>)]
  /\ IF bot_i < Len(bottom_MOUNTING_HOLES)
     THEN bot_i' = bot_i + 1 /\ bot_pc' = bot_pc
     ELSE bot_i' = 1 /\ bot_pc' = "clean"
  /\ UNCHANGED bot_files
  /\ UNCHANGED BottomOutside

\* bottom.py line 153
BottomClean ==
  /\ bot_pc = "clean"
  /\ bot' = [bot EXCEPT !.case = removeSplitter(bot.case)]
  /\ bot_pc' = "export"
  /\ UNCHANGED <<bot_i, bot_files>>
  /\ UNCHANGED BottomOutside

\* bottom.py lines 158-174: STEP export, then STL export unless Mesh fails
BottomExport ==
  /\ bot_pc = "export"
  /\ \E mesh_ok \in BOOLEAN :
       bot_files' =
         <<[path |-> "~/chocofi_simple_case.step", object |-> "ChocofiBottomCase",
            shape |-> bot.case]>>
         \o IF mesh_ok
            THEN <<[path |-> "~/chocofi_simple_case.stl", object |-> "ChocofiBottomCase",
                    shape |-> bot.case]>>
            ELSE << >>
  /\ bot_pc' = "done"
  /\ UNCHANGED <<bot_i, bot>>
  /\ UNCHANGED BottomOutside

\* top.py lines 133-150
TopWire ==
  /\ top_pc = "wire" /\ BottomIdle
  /\ top' = [top EXCEPT !.pcb_wire = Wire(AppendEdges(<< >>, top_SEGMENTS, 1))]
  /\ top_pc' = "plate"
  /\ UNCHANGED <<top_i, top_files>>
  /\ UNCHANGED TopOutside

\* top.py lines 156-161
TopPlate ==
  /\ top_pc = "plate"
  /\ LET outer_wire == makeOffset2D(top.pcb_wire, TopScriptOuterOffset)
     IN top' = [top EXCEPT !.outer_wire = outer_wire, !.outer_face = Face(outer_wire),
                           !.plate = extrude(Face(outer_wire), top_PLATE_THICKNESS)]
  /\ top_pc' = "groove"
  /\ UNCHANGED <<top_i, top_files>>
  /\ UNCHANGED TopOutside

\* top.py lines 174-185
TopGroove ==
  /\ top_pc = "groove"
  /\ LET groove_outer_wire ==
           makeOffset2D(top.pcb_wire, top_TOLERANCE + top_BORDER_WIDTH)
         groove_inner_wire ==
           makeOffset2D(top.pcb_wire, GrooveInnerOffset)
         groove_ring == FaceCut(Face(groove_outer_wire), Face(groove_inner_wire))
     IN top' = [top EXCEPT !.groove_outer_wire = groove_outer_wire,
                           !.groove_inner_wire = groove_inner_wire,
                           !.groove_ring = groove_ring,
                           !.groove_solid = translate(extrude(groove_ring, top_GROOVE_DEPTH),
                                                      -top_GROOVE_DEPTH)]
  /\ top_pc' = "skirt"
  /\ UNCHANGED <<top_i, top_files>>
  /\ UNCHANGED TopOutside

\* top.py lines 187-193
TopSkirt ==
  /\ top_pc = "skirt"
  /\ LET skirt_inner_wire == makeOffset2D(top.pcb_wire, top_TOLERANCE)
         skirt_ring == FaceCut(Face(top.groove_outer_wire), Face(skirt_inner_wire))
         skirt == translate(extrude(skirt_ring, top_GROOVE_DEPTH), -top_GROOVE_DEPTH)
     IN top' = [top EXCEPT !.skirt_inner_wire = skirt_inner_wire, !.skirt = skirt,
                           !.plate = fuse(top.plate, skirt)]
  /\ top_pc' = "cut_groove"
  /\ UNCHANGED <<top_i, top_files>>
  /\ UNCHANGED TopOutside

\* top.py lines 195-196
TopCutGroove ==
  /\ top_pc = "cut_groove"
  /\ top' = [top EXCEPT !.plate = cut(top.plate, top.groove_solid)]
  /\ top_pc' = "switches" /\ top_i' = 1
  /\ UNCHANGED top_files
  /\ UNCHANGED TopOutside

\* top.py lines 199-226: one turn of the loop over SWITCHES
TopSwitchCutout ==
  /\ top_pc = "switches"
  /\ LET sw == top_SWITCHES[top_i]
     IN top' = [top EXCEPT !.plate = CutPrims(top.plate, <<ChocCutout(sw[1], sw[2], sw[3])>>)]
  /\ IF top_i < Len(top_SWITCHES)
     THEN top_i' = top_i + 1 /\ top_pc' = top_pc
     ELSE top_i' = 1 /\ top_pc' = "tower"
  /\ UNCHANGED top_files
  /\ UNCHANGED TopOutside

\* top.py lines 291-368
TopTower ==
  /\ top_pc = "tower"
  /\ top' = [top EXCEPT !.plate = FusePrims(top.plate, <<TowerSolid>>)]
  /\ top_pc' = "hollow"
  /\ UNCHANGED <<top_i, top_files>>
  /\ UNCHANGED TopOutside

\* top.py lines 370-401: cavity, plate opening, PCB recess and screen window
TopHollow ==
  /\ top_pc = "hollow"
  /\ LET cavity == ShiftZ(RectPrism(TOWER_CX, TOWER_CY, HOLE_X, CAVITY_Y,
                                    TOWER_TOTAL - TOWER_WALL), tower_z_base - 10)
         plate_hole == ShiftZ(RectPrism(TOWER_CX, TOWER_CY, HOLE_X, CAVITY_Y,
                                        top_PLATE_THICKNESS + 20), -10)
         recess_cut == ShiftZ(RectPrism(SCREEN_CX, SCREEN_CY, NV_PCB_RECESS_X,
                                        NV_PCB_RECESS_Y, NV_RECESS_DEPTH + 10),
                              tower_top_z - TOWER_WALL - NV_RECESS_DEPTH)
         screen_cut == ShiftZ(RectPrism(SCREEN_CX, SCREEN_CY, NV_SCREEN_DISP_H,
                                        NV_SCREEN_DISP_W, TOWER_WALL + 2000),
                              tower_top_z - TOWER_WALL - 1000)
     IN top' = [top EXCEPT !.plate = CutPrims(top.plate, <<cavity, plate_hole,
                                                             recess_cut, screen_cut>>)]
  /\ top_pc' = "usb"
  /\ UNCHANGED <<top_i, top_files>>
  /\ UNCHANGED TopOutside

\* top.py lines 403-506: USB-C notch, skirt reinforcement, removeSplitter
TopUsb ==
  /\ top_pc = "usb"
  /\ top' = [top EXCEPT !.plate =
               removeSplitter(
                 FusePrims(CutPrims(top.plate, <<UsbNotch>>),
                           <<Reinforcement(TOWER_CX - USBC_W \div 2 - REINFORCE_W),
                             Reinforcement(TOWER_CX + USBC_W \div 2)>>))]
  /\ top_pc' = "export"
  /\ UNCHANGED <<top_i, top_files>>
  /\ UNCHANGED TopOutside

\* top.py lines 511-527: STEP export, then STL export unless Mesh fails
TopExport ==
  /\ top_pc = "export"
  /\ \E mesh_ok \in BOOLEAN :
       top_files' =
         <<[path |-> "~/chocofi_top_plate.step", object |-> "ChocofiTopPlate",
            shape |-> top.plate]>>
         \o IF mesh_ok
            THEN <<[path |-> "~/chocofi_top_plate.stl", object |-> "ChocofiTopPlate",
                    shape |-> top.plate]>>
            ELSE << >>
  /\ top_pc' = "done"
  /\ UNCHANGED <<top_i, top>>
  /\ UNCHANGED TopOutside

\* ------------------------------------------------------------------------
\* Builders called directly (from the FreeCAD console or another macro),
\* any builder, any number of times up to MaxCalls
\* ------------------------------------------------------------------------
MaxCalls == 3

CallDirect(b) ==
  /\ BottomIdle /\ TopIdle
  /\ Len(held) < MaxCalls
  /\ held' = Append(held, [by |-> b, shape |-> CallBuilder(b)])
  /\ edges' = WireEdges(SegmentsSeen)
  /\ UNCHANGED <<bot_pc, bot_i, bot, bot_files, top_pc, top_i, top, top_files>>
  /\ UNCHANGED <<disk_params, disk_pcb_data, changed, sys_modules, sys_path,
                 has_file, f_var, cwd, gui, pc, idx, dir, reloaded, doc,
                 recomputed, files, calls>>

CallBuildPcb == CallDirect("build_pcb")
CallBuildTopCase == CallDirect("build_top_case")
CallBuildBottomCase == CallDirect("build_bottom_case")

vars == <<buildVars, scriptVars>>

\* build.py run as a macro
Init == BuildInit /\ ScriptsInit

Next ==
  \/ SetupPath
  \/ ImportStep
  \/ ReloadStep
  \/ NewDocument
  \/ BuildPart
  \/ Recompute
  \/ ExportStep
  \/ Summary

Spec == Init /\ [][Next]_vars

\* A session in which the standalone scripts run and the builders are called
\* directly; the modules are freshly imported.
SessionInit ==
  /\ disk_params \in ParamChoices
  /\ disk_pcb_data \in TableChoices
  /\ changed = {}
  /\ sys_modules = CacheOfEarlierRun({})
  /\ sys_path = {"script"}
  /\ has_file = TRUE /\ f_var = "none" /\ cwd = "script" /\ gui = TRUE
  /\ pc = "idle" /\ idx = 1 /\ dir = "script"
  /\ reloaded = {} /\ doc = << >> /\ recomputed = FALSE /\ files = << >>
  /\ calls = [b \in Builders |-> 0]
  /\ edges = << >>
  /\ ScriptsInit

SessionNext ==
  \/ BottomWire
  \/ BottomFaces
  \/ BottomWalls
  \/ BottomRidgeStep
  \/ BottomStandoff
  \/ BottomClean
  \/ BottomExport
  \/ TopWire
  \/ TopPlate
  \/ TopGroove
  \/ TopSkirt
  \/ TopCutGroove
  \/ TopSwitchCutout
  \/ TopTower
  \/ TopHollow
  \/ TopUsb
  \/ TopExport
  \/ CallBuildPcb
  \/ CallBuildTopCase
  \/ CallBuildBottomCase

SpecSession == SessionInit /\ [][SessionNext]_vars

\* ------------------------------------------------------------------------
\* Properties
\* ------------------------------------------------------------------------
\* The shape of the document object called name.
ShapeOf(name) == doc[CHOOSE i \in DOMAIN doc : doc[i].Name = name].Shape

\* The parts of an outline solid: slabs cover the whole face, rings do not.
Slabs(s) == {b \in s.prof : b.lo = Core}
Rings(s) == {b \in s.prof : b.lo # Core}

\* The ring of a solid that starts lowest (the lip of the top case, the wall
\* of the bottom case).
LowestRing(s) == CHOOSE b \in Rings(s) : \A c \in Rings(s) : b.z0 <= c.z0

\* The cylinders a solid had fused or cut, in order, and their axes.
Cylinders(s, op) == SelectSeq(s.ops, LAMBDA o : o.op = op /\ o.prim.kind = "cyl")
Axes(features) == [k \in DOMAIN features |-> <<features[k].prim.x, features[k].prim.y>>]

BuildDone == pc = "done"

\* C1: in the frame the builders share, the lip of the top case (its rings
\* below Z = 0) shares no volume with the wall and the ridge of the bottom
\* case (its rings).
C1_LipClearOfWallAndRidge ==
  BuildDone =>
    ~SharesVolume({b \in Rings(ShapeOf("Chocofi_TopCase")) : b.z0 < 0},
                  Rings(ShapeOf("Chocofi_BottomCase")))

\* The top and the bottom part returned by direct builder calls.
HeldBy(b) == {held[i].shape : i \in {j \in DOMAIN held : held[j].by = b}}

\* The largest offset a solid reaches.
OuterOffsetOf(s) == MaxOf({b.hi : b \in s.prof})

\* C2: the top and the bottom part are built from the same outline, offset by
\* the same outer distance (tolerance plus wall thickness, tolerance plus
\* border width in top.py) and the same inner distance (the tolerance), in
\* the builders and in the standalone scripts.
C2_SameOutlineAndOffsets ==
  /\ \A t \in HeldBy("build_top_case"), b \in HeldBy("build_bottom_case") :
       /\ t.outline = b.outline
       /\ OuterOffsetOf(t) = OuterOffsetOf(b)
       /\ OuterOffsetOf(b) = disk_params.TOLERANCE + disk_params.WALL_THICKNESS
       /\ LowestRing(t).hi = LowestRing(b).hi
       /\ LowestRing(t).lo = LowestRing(b).lo
       /\ LowestRing(b).lo = disk_params.TOLERANCE
  /\ (top_pc \notin {"wire", "plate", "groove", "skirt"}
      /\ bot_pc \notin {"wire", "faces"}) =>
       /\ top_SEGMENTS = bottom_SEGMENTS
       /\ top.pcb_wire = bot.pcb_wire
       /\ top.outer_wire = bot.outer_wire
       /\ top.outer_wire.off = top_TOLERANCE + top_BORDER_WIDTH
       /\ bot.outer_wire.off = bottom_TOLERANCE + bottom_WALL_THICKNESS
       /\ top.skirt_inner_wire = bot.inner_wire
       /\ bot.inner_wire.off = bottom_TOLERANCE
       /\ top.skirt_inner_wire.off = top_TOLERANCE

C2_Witness ==
  /\ HeldBy("build_top_case") # {} /\ HeldBy("build_bottom_case") # {}
  /\ top_pc = "done" /\ bot_pc = "done"
  /\ Len(top.outer_wire.edges) = Len(top_SEGMENTS)

\* C3: every mounting hole entry (mx, my) gives exactly one hole in the PCB,
\* one screw hole in the top case, one post and one insert hole in the
\* bottom case, all on the axis (mx, -my).
MountingAxes ==
  [k \in DOMAIN disk_pcb_data.MOUNTING_HOLES |->
     <<disk_pcb_data.MOUNTING_HOLES[k][1], -disk_pcb_data.MOUNTING_HOLES[k][2]>>]

PcbMountingFeatures ==
  SelectSeq(Cylinders(ShapeOf("Chocofi_PCB"), "cut"),
            LAMBDA o : o.prim.radius = disk_pcb_data.MOUNTING_HOLE_DRILL \div 2)

C3_MountingFeaturesAligned ==
  BuildDone =>
    /\ Axes(PcbMountingFeatures) = MountingAxes
    /\ Axes(Cylinders(ShapeOf("Chocofi_TopCase"), "cut")) = MountingAxes
    /\ Axes(Cylinders(ShapeOf("Chocofi_BottomCase"), "fuse")) = MountingAxes
    /\ Axes(Cylinders(ShapeOf("Chocofi_BottomCase"), "cut")) = MountingAxes

C3_Witness ==
  /\ BuildDone
  /\ Len(disk_pcb_data.MOUNTING_HOLES) = 3
  /\ Len(Cylinders(ShapeOf("Chocofi_BottomCase"), "fuse")) = 3
  /\ \E k \in 1..3 : disk_pcb_data.MOUNTING_HOLES[k][2] # 0

\* The groove ring of top.py, the ridge ring of bottom.py and what is left of
\* the skirt below the plate.
GrooveRing == CHOOSE r \in top.groove_ring.rings : TRUE
RidgeRing == CHOOSE b \in bot.ridge_solid.prof : TRUE
SkirtLeft == {b \in top.plate.prof : b.z0 < 0}

\* C4: in the standalone scripts the groove is as deep as the ridge is high,
\* ends at the same outer offset, starts GROOVE_TOLERANCE inside the ridge's
\* inner offset (so it is the ridge width plus that clearance wide), and the
\* skirt left after the cut goes from the tolerance offset to the groove and
\* has a positive thickness.
C4_GrooveMatchesRidge ==
  (top_pc \notin {"wire", "plate", "groove", "skirt", "cut_groove"}
   /\ bot_pc \notin {"wire", "faces", "walls", "ridge"}) =>
    /\ Cardinality(top.groove_ring.rings) = 1
    /\ Cardinality(bot.ridge_solid.prof) = 1
    /\ \A g \in top.groove_solid.prof :
         g.z1 - g.z0 = RidgeRing.z1 - RidgeRing.z0 /\ g.z1 = 0
    /\ GrooveRing[2] = RidgeRing.hi
    /\ GrooveRing[1] = RidgeRing.lo - top_GROOVE_TOLERANCE
    /\ GrooveRing[1] < RidgeRing.lo
    /\ RidgeRing.hi - RidgeRing.lo = top_GROOVE_WIDTH
    /\ top.outer_wire.off - top.skirt_inner_wire.off
         = bot.outer_wire.off - bot.inner_wire.off
    /\ top.skirt_inner_wire.off = bot.inner_wire.off
    /\ SkirtLeft # {}
    /\ \A b \in SkirtLeft :
         /\ b.lo = top.skirt_inner_wire.off /\ b.hi = GrooveRing[1]
         /\ b.lo < b.hi
         /\ b.z0 = -top_GROOVE_DEPTH /\ b.z1 = 0

C4_Witness ==
  /\ top_pc = "done" /\ bot_pc = "done"
  /\ SkirtLeft # {}
  /\ top.groove_solid.prof # {}

\* C5: the bottom case is a floor, a wall on it and a ridge on the wall: the
\* floor from -PCB-WALL-FLOOR to -PCB-WALL, the wall up to -PCB, the ridge
\* from -PCB to -PCB+RIDGE_HEIGHT, stacked without gap or overlap.
C5_BottomZLayout ==
  BuildDone =>
    LET s == ShapeOf("Chocofi_BottomCase")
        p == disk_params
    IN /\ Cardinality(Slabs(s)) = 1 /\ Cardinality(Rings(s)) = 2
       /\ \E floor \in Slabs(s), wall \in Rings(s), ridge \in Rings(s) :
            /\ floor.z0 = -p.PCB_THICKNESS - p.BOTTOM_WALL_HEIGHT - p.FLOOR_THICKNESS
            /\ floor.z1 = -p.PCB_THICKNESS - p.BOTTOM_WALL_HEIGHT
            /\ wall.z0 = floor.z1
            /\ wall.z1 = -p.PCB_THICKNESS
            /\ wall.lo = p.TOLERANCE
            /\ ridge.z0 = wall.z1
            /\ ridge.z1 = -p.PCB_THICKNESS + p.RIDGE_HEIGHT
            /\ ridge.lo = p.TOLERANCE + p.WALL_THICKNESS - p.RIDGE_WIDTH
            /\ floor.z0 < floor.z1 /\ wall.z0 < wall.z1 /\ ridge.z0 < ridge.z1

C5_Witness ==
  /\ BuildDone
  /\ disk_params = EditedParams
  /\ Cardinality(Rings(ShapeOf("Chocofi_BottomCase"))) = 2

\* C6: the plate occupies Z from 0 to TOP_PLATE_THICKNESS and its lip goes
\* down to -TOP_LIP_HEIGHT; the board occupies Z from -PCB_THICKNESS to 0; so
\* the plate underside is the board top and the board underside is the top of
\* the bottom case wall.
C6_PlateSitsOnPcb ==
  BuildDone =>
    LET top_case == ShapeOf("Chocofi_TopCase")
        board == ShapeOf("Chocofi_PCB")
        wall == LowestRing(ShapeOf("Chocofi_BottomCase"))
    IN /\ Cardinality(Slabs(top_case)) = 1 /\ Cardinality(Rings(top_case)) = 1
       /\ Cardinality(board.prof) = 1
       /\ \A plate \in Slabs(top_case), lip \in Rings(top_case), b \in board.prof :
            /\ plate.z0 = 0 /\ plate.z1 = disk_params.TOP_PLATE_THICKNESS
            /\ lip.z0 = -disk_params.TOP_LIP_HEIGHT /\ lip.z1 = 0
            /\ b.z0 = -disk_params.PCB_THICKNESS /\ b.z1 = 0
            /\ plate.z0 = b.z1
            /\ b.z0 = wall.z1

C6_Witness ==
  /\ BuildDone
  /\ \E b \in ShapeOf("Chocofi_PCB").prof : b.z0 < 0
  /\ Rings(ShapeOf("Chocofi_TopCase")) # {}

\* C7: a run that ends well leaves exactly three objects, Chocofi_PCB,
\* Chocofi_TopCase and Chocofi_BottomCase in that order, each with the shape
\* its own builder returns, and has called each builder once.
C7_ThreeObjects ==
  BuildDone =>
    /\ [i \in DOMAIN doc |-> doc[i].Name]
         = <<"Chocofi_PCB", "Chocofi_TopCase", "Chocofi_BottomCase">>
    /\ doc[1].Shape = build_pcb(disk_params, disk_pcb_data, disk_pcb_data.SEGMENTS)
    /\ doc[2].Shape = build_top_case(disk_params, disk_pcb_data, disk_pcb_data.SEGMENTS)
    /\ doc[3].Shape = build_bottom_case(disk_params, disk_pcb_data, disk_pcb_data.SEGMENTS)
    /\ \A b \in Builders : calls[b] = 1

C7_Witness ==
  /\ BuildDone
  /\ Len(doc) = 3
  /\ doc[2].Shape # doc[3].Shape

\* C8 as stated: no file is written before the three parts are built and the
\* document recomputed, and at the end every object has been exported once,
\* to <object name>.step in the script directory.
C8_ExportLastToScriptDir ==
  /\ files # << >> => (recomputed /\ Len(doc) = 3 /\ \A b \in Builders : calls[b] = 1)
  /\ BuildDone =>
       /\ Len(files) = Len(doc)
       /\ \A i \in DOMAIN doc :
            files[i] = [dir |-> "script", stem |-> doc[i].Name, ext |-> "step",
                        objects |-> <<doc[i].Name>>]

\* The directory lines 14-19 of build.py choose.
ChosenDir == IF has_file THEN "script" ELSE IF f_var # "none" THEN f_var ELSE cwd

\* C8 amended: the same, with the files written to _dir, which is the script
\* directory when __file__ is defined, else the directory of the path in f,
\* else the current working directory.
C8_ExportLastToDir ==
  /\ files # << >> => (recomputed /\ Len(doc) = 3 /\ \A b \in Builders : calls[b] = 1)
  /\ BuildDone =>
       /\ Len(files) = Len(doc)
       /\ dir = ChosenDir
       /\ \A i \in DOMAIN doc :
            files[i] = [dir |-> ChosenDir, stem |-> doc[i].Name, ext |-> "step",
                        objects |-> <<doc[i].Name>>]

C8_Witness ==
  /\ BuildDone
  /\ Len(files) = 3
  /\ ~has_file /\ dir = "other"

BuilderModules == {"pcb_model", "top_case_model", "bottom_case_model"}

\* C9: every module is reloaded only after the modules it imports names
\* from, all six are reloaded before a builder is called, and the builders
\* then read the values params and pcb_data hold on disk.
C9_ReloadBeforeBuild ==
  /\ \A m \in reloaded : Imports(m) \subseteq reloaded
  /\ (pc = "parts" \/ \E b \in Builders : calls[b] > 0) =>
       /\ reloaded = Modules
       /\ SegmentsSeen = disk_pcb_data.SEGMENTS
       /\ \A m \in BuilderModules :
            ParamsSeenBy(m) = disk_params /\ TablesSeenBy(m) = disk_pcb_data

C9_Witness ==
  /\ pc = "parts"
  /\ {"params", "pcb_data"} \subseteq changed
  /\ PrevParams(disk_params) # disk_params
  /\ PrevTables(disk_pcb_data) # disk_pcb_data

\* Two calls of the same builder return the same shape.
C10_ResultsAgree ==
  \A i, j \in DOMAIN held : held[i].by = held[j].by => held[i].shape = held[j].shape

\* A builder call leaves the tables, the modules and every shape that existed
\* before it as they were.
C10_CallFrame ==
  held' # held =>
    /\ SubSeq(held', 1, Len(held)) = held
    /\ disk_params' = disk_params /\ disk_pcb_data' = disk_pcb_data
    /\ sys_modules' = sys_modules
    /\ doc' = doc /\ bot' = bot /\ top' = top
    /\ bot_files' = bot_files /\ top_files' = top_files

\* C10: a builder changes neither the tables nor any shape made before the
\* call, and returns the same shape whatever builder calls came before.
C10_BuildersSideEffectFree == []C10_ResultsAgree /\ [][C10_CallFrame]_vars

C10_Witness ==
  /\ Len(held) = 3
  /\ held[1].by = held[3].by /\ held[1].by # held[2].by
  /\ held[1].shape.outline # << >>

\* The table is closed: every segment ends where the next one starts, the
\* last one where the first one starts.
TableClosed(SEGS) ==
  /\ SEGS # << >>
  /\ \A i \in DOMAIN SEGS : SEGS[i][3] = SEGS[(i % Len(SEGS)) + 1][2]

\* The edges form one closed loop in the plane Z = 0.
ClosedLoop(es) ==
  /\ es # << >>
  /\ \A i \in DOMAIN es :
       /\ es[i].p2 = es[(i % Len(es)) + 1].p1
       /\ es[i].p1[3] = 0 /\ es[i].p2[3] = 0
  /\ \A i, j \in DOMAIN es : i # j => es[i].p1 # es[j].p1

\* The end points of the edges are table points with Y negated, at Z = 0.
PointsFlipped(es, SEGS) ==
  \A i \in DOMAIN es :
    \E k \in DOMAIN SEGS :
      /\ es[i].p1 = <<SEGS[k][2][1], -SEGS[k][2][2], 0>>
      /\ es[i].p2 = <<SEGS[k][3][1], -SEGS[k][3][2], 0>>

\* C11: the SEGMENTS tables of top.py and bottom.py are closed, and the wire
\* every script and builder makes from a closed table is one closed loop of
\* edges in the plane Z = 0 whose points are the table points with Y negated.
C11_OutlineIsClosedWire ==
  /\ TableClosed(top_SEGMENTS) /\ TableClosed(bottom_SEGMENTS)
  /\ top_pc # "wire" =>
       /\ ClosedLoop(top.pcb_wire.edges)
       /\ PointsFlipped(top.pcb_wire.edges, top_SEGMENTS)
  /\ bot_pc # "wire" =>
       /\ ClosedLoop(bot.pcb_wire.edges)
       /\ PointsFlipped(bot.pcb_wire.edges, bottom_SEGMENTS)
  /\ (held # << >> /\ TableClosed(SegmentsSeen)) =>
       /\ ClosedLoop(edges)
       /\ PointsFlipped(edges, SegmentsSeen)
       /\ \A i \in DOMAIN held : held[i].shape.outline = edges

C11_Witness ==
  /\ held # << >>
  /\ disk_pcb_data.SEGMENTS = RoundedOutline
  /\ Len(edges) < Len(RoundedOutline)
  /\ \E i \in DOMAIN edges : edges[i].kind = "arc"
  /\ top_pc = "done" /\ bot_pc = "done"

\* The primitives a solid had cut out of it.
CutOps(s) == SelectSeq(s.ops, LAMBDA o : o.op = "cut")

\* The cutter starts 1 mm below the slab from z_base to z_base + height and
\* ends 1 mm above it.
ThroughSlab(prim, z_base, height) ==
  /\ prim.z0 = z_base - 1000 /\ prim.z1 = z_base + height + 1000
  /\ prim.z0 < z_base /\ prim.z1 > z_base + height

\* Values of z_base and height the helpers are tried with.
ZBases == {-5000, -1600, 0, 1500}
Heights == {0, 1, 1500, 1600, 4000}

\* C12: for every z_base and height >= 0 the cutters of make_hole and
\* make_plate_cutout reach 1 mm beyond the slab on both sides; every hole cut
\* from the PCB goes through the board and every cutout and screw hole cut
\* from the top case goes through the plate.
C12_CuttersGoThrough ==
  /\ \A z \in ZBases, h \in Heights :
       /\ ThroughSlab(make_hole(10000, 20000, z, h, 2200), z, h)
       /\ \A rot \in {0, 90} :
            ThroughSlab(make_plate_cutout(10000, 20000, rot, z, h, 13800), z, h)
  /\ BuildDone =>
       LET board == ShapeOf("Chocofi_PCB")
           top_case == ShapeOf("Chocofi_TopCase")
       IN /\ \A i \in DOMAIN CutOps(board) : \A b \in board.prof :
               /\ CutOps(board)[i].prim.z0 < b.z0 /\ CutOps(board)[i].prim.z1 > b.z1
               /\ ThroughSlab(CutOps(board)[i].prim, -disk_params.PCB_THICKNESS,
                              disk_params.PCB_THICKNESS)
          /\ \A i \in DOMAIN CutOps(top_case) : \A plate \in Slabs(top_case) :
               /\ CutOps(top_case)[i].prim.z0 < plate.z0
               /\ CutOps(top_case)[i].prim.z1 > plate.z1
               /\ ThroughSlab(CutOps(top_case)[i].prim, 0, disk_params.TOP_PLATE_THICKNESS)

C12_Witness ==
  /\ BuildDone
  /\ Len(CutOps(ShapeOf("Chocofi_PCB"))) > 2
  /\ \E i \in DOMAIN CutOps(ShapeOf("Chocofi_TopCase")) :
       CutOps(ShapeOf("Chocofi_TopCase"))[i].prim.kind = "box"
  /\ \E i \in DOMAIN CutOps(ShapeOf("Chocofi_TopCase")) :
       CutOps(ShapeOf("Chocofi_TopCase"))[i].prim.kind = "cyl"

\* The number of pads of all header footprints together.
RECURSIVE PadCount(_)
PadCount(headers) ==
  IF headers = << >> THEN 0 ELSE Len(Head(headers)[4]) + PadCount(Tail(headers))

BoxCuts(s) == SelectSeq(s.ops, LAMBDA o : o.op = "cut" /\ o.prim.kind = "box")

\* C13: build_pcb cuts cylinders only, one per NPTH hole and one centre hole
\* for every switch, one per header pad and one per mounting hole; the top
\* case has exactly one square cutout of side SWITCH_PLATE_CUTOUT per switch,
\* at the switch position.
C13_CutoutsOnTopCaseOnly ==
  BuildDone =>
    LET board == ShapeOf("Chocofi_PCB")
        top_case == ShapeOf("Chocofi_TopCase")
        t == disk_pcb_data
        squares == BoxCuts(top_case)
    IN /\ \A i \in DOMAIN board.ops : board.ops[i].op = "cut" /\ board.ops[i].prim.kind = "cyl"
       /\ Len(board.ops) = Len(t.SWITCH_POSITIONS) * (Len(t.SWITCH_NPTH_HOLES) + 1)
                             + PadCount(t.NICENANO_HEADERS) + Len(t.MOUNTING_HOLES)
       /\ Len(squares) = Len(t.SWITCH_POSITIONS)
       /\ \A i \in DOMAIN squares :
            /\ squares[i].prim.dx = disk_params.SWITCH_PLATE_CUTOUT
            /\ squares[i].prim.dy = disk_params.SWITCH_PLATE_CUTOUT
            /\ squares[i].prim.tx = t.SWITCH_POSITIONS[i][1]
            /\ squares[i].prim.ty = -t.SWITCH_POSITIONS[i][2]
            /\ squares[i].prim.rot = -t.SWITCH_POSITIONS[i][3]

C13_Witness ==
  /\ BuildDone
  /\ Len(disk_pcb_data.SWITCH_POSITIONS) = 2
  /\ PadCount(disk_pcb_data.NICENANO_HEADERS) = 2
  /\ Len(ShapeOf("Chocofi_PCB").ops) = 10
  /\ Len(BoxCuts(ShapeOf("Chocofi_TopCase"))) = 2

\* Every insert hole of the solid s is blind: it starts depth below the top
\* of its post, not below the top of the floor and not below the post, ends
\* just above the top of the post, and is narrower than the post.
BlindHoles(s, floors, depth) ==
  LET posts == Cylinders(s, "fuse")
      holes == Cylinders(s, "cut")
  IN /\ Len(posts) = Len(holes)
     /\ \A k \in DOMAIN holes :
          LET post == posts[k].prim
              hole == holes[k].prim
          IN /\ hole.x = post.x /\ hole.y = post.y
             /\ hole.radius < post.radius
             /\ hole.z0 = post.z1 - depth
             /\ hole.z0 >= post.z0
             /\ hole.z1 > post.z1 /\ hole.z1 - post.z1 <= 10
             /\ \A floor \in floors : post.z0 = floor.z1 /\ hole.z0 >= floor.z1

\* C14: in build_bottom_case and in bottom.py every insert hole is a blind
\* hole from the top of its post: it starts INSERT_HOLE_DEPTH below the post
\* top, at or above the floor top, and ends just above the post top.
C14_InsertHolesAreBlind ==
  /\ \A s \in HeldBy("build_bottom_case") :
       /\ Slabs(s) # {}
       /\ BlindHoles(s, Slabs(s), disk_params.INSERT_HOLE_DEPTH)
  /\ bot_pc \in {"standoffs", "clean", "export", "done"} =>
       /\ bot.floor_solid.prof # {}
       /\ BlindHoles(bot.case, bot.floor_solid.prof, bottom_INSERT_HOLE_DEPTH)
  /\ bot_pc \in {"clean", "export", "done"} =>
       Len(Cylinders(bot.case, "cut")) = Len(bottom_MOUNTING_HOLES)

C14_Witness ==
  /\ bot_pc = "done"
  /\ Len(Cylinders(bot.case, "cut")) > 1
  /\ \E s \in HeldBy("build_bottom_case") : Len(Cylinders(s, "cut")) = 3

\* Two cylinders with vertical axes share volume.
CylindersMeet(a, b) ==
  LET dx == Abs(a.x - b.x)
      dy == Abs(a.y - b.y)
      reach == a.radius + b.radius
  IN /\ Max(a.z0, b.z0) < Min(a.z1, b.z1)
     /\ dx < reach /\ dy < reach
     /\ dx * dx + dy * dy < reach * reach

\* No cylinder cut out of s is filled again by a cylinder fused later.
HolesStayEmpty(s) ==
  \A i, j \in DOMAIN s.ops :
    (i < j /\ s.ops[i].op = "cut" /\ s.ops[i].prim.kind = "cyl"
     /\ s.ops[j].op = "fuse" /\ s.ops[j].prim.kind = "cyl")
      => ~CylindersMeet(s.ops[i].prim, s.ops[j].prim)

\* C15: in the solid build_bottom_case returns all posts are fused before any
\* hole is cut, so every insert hole stays empty however close the mounting
\* holes are; in bottom.py, where fusing and cutting alternate, no post
\* fused later reaches into a hole cut earlier.
C15_InsertHolesStayEmpty ==
  /\ \A s \in HeldBy("build_bottom_case") :
       /\ \A i, j \in DOMAIN s.ops :
            (s.ops[i].op = "fuse" /\ s.ops[j].op = "cut") => i < j
       /\ HolesStayEmpty(s)
       /\ Len(Cylinders(s, "cut")) = Len(disk_pcb_data.MOUNTING_HOLES)
  /\ HolesStayEmpty(bot.case)

C15_Witness ==
  /\ bot_pc = "done"
  /\ \E i, j \in DOMAIN bot.case.ops :
       i < j /\ bot.case.ops[i].op = "cut" /\ bot.case.ops[j].op = "fuse"
  /\ \E s \in HeldBy("build_bottom_case") :
       \E i, j \in DOMAIN s.ops :
         /\ i < j /\ s.ops[i].op = "fuse" /\ s.ops[j].op = "fuse"
         /\ CylindersMeet(s.ops[i].prim, s.ops[j].prim)

\* C16: the board and the bottom case share no volume: the wall and the ridge
\* start at least TOLERANCE > 0 outside the board outline, the ridge ring
\* lies within the wall ring, the floor is below the board, and every post
\* ends at floor top + STANDOFF_HEIGHT, at or below the board underside.
C16_BoardClearOfBottomCase ==
  BuildDone =>
    LET board == ShapeOf("Chocofi_PCB")
        case == ShapeOf("Chocofi_BottomCase")
        p == disk_params
        wall == LowestRing(case)
        posts == Cylinders(case, "fuse")
    IN /\ board.prof # {} /\ Rings(case) # {}
       /\ ~SharesVolume(board.prof, case.prof)
       /\ \A b \in board.prof : b.hi = 0 /\ b.z0 = -p.PCB_THICKNESS
       /\ \A r \in Rings(case) :
            /\ r.lo >= p.TOLERANCE /\ p.TOLERANCE > 0
            /\ wall.lo <= r.lo /\ r.hi <= wall.hi
       /\ \A floor \in Slabs(case) : floor.z1 <= -p.PCB_THICKNESS
       /\ \A k \in DOMAIN case.ops :
            case.ops[k].op = "fuse" => case.ops[k].prim.kind = "cyl"
       /\ \A k \in DOMAIN posts :
            /\ posts[k].prim.z1 = z_floor_top(p) + p.STANDOFF_HEIGHT
            /\ posts[k].prim.z1 <= -p.PCB_THICKNESS

C16_Witness ==
  /\ BuildDone
  /\ Len(Cylinders(ShapeOf("Chocofi_BottomCase"), "fuse")) = 3
  /\ Cardinality(Rings(ShapeOf("Chocofi_BottomCase"))) = 2
  /\ ShapeOf("Chocofi_PCB").prof # {}
  /\ disk_params = ActualParams

\* The box build_bottom_case cuts for the USB-C connector.
UsbCut(s) == BoxCuts(s)[1].prim

\* C17: the USB-C cutting box starts 1 mm inside the inner face of the right
\* wall (at XMax - WALL_THICKNESS - 1), ends beyond its outer face (at
\* XMax + TOLERANCE + 1), is centred on the wall in Z and, when USB_HEIGHT is
\* at most BOTTOM_WALL_HEIGHT, stays within the Z range of the wall, so that
\* of floor, wall and ridge it meets the wall only.
C17_UsbCutoutInWallOnly ==
  BuildDone =>
    LET case == ShapeOf("Chocofi_BottomCase")
        p == disk_params
        box == UsbCut(case)
        wall == LowestRing(case)
        x_max == XMax(Wire(case.outline)) + OuterOffsetOf(case)
    IN /\ Len(BoxCuts(case)) = 1
       /\ box.rot = 0 /\ box.tx = 0 /\ box.ty = 0
       /\ box.x = x_max - p.WALL_THICKNESS - 1000
       /\ box.x + box.dx = x_max + p.TOLERANCE + 1000
       /\ box.x < x_max - p.WALL_THICKNESS /\ box.x + box.dx > x_max
       /\ box.y = -disk_pcb_data.MCU_Y_CENTER - p.USB_WIDTH \div 2
       /\ box.dy = p.USB_WIDTH
       /\ box.z1 - box.z0 = p.USB_HEIGHT
       /\ box.z0 - wall.z0 = wall.z1 - box.z1
       /\ p.USB_HEIGHT <= p.BOTTOM_WALL_HEIGHT =>
            /\ wall.z0 <= box.z0 /\ box.z1 <= wall.z1
            /\ \A b \in case.prof :
                 Max(b.z0, box.z0) < Min(b.z1, box.z1) => b = wall

C17_Witness ==
  /\ BuildDone
  /\ disk_params.USB_HEIGHT < disk_params.BOTTOM_WALL_HEIGHT
  /\ Len(BoxCuts(ShapeOf("Chocofi_BottomCase"))) = 1
  /\ UsbCut(ShapeOf("Chocofi_BottomCase")).z0 > LowestRing(ShapeOf("Chocofi_BottomCase")).z0
  /\ disk_pcb_data.SEGMENTS = RoundedOutline

====
